---- MODULE Spec2Model ----
(***************************************************************************)
(* Multi-agent routing workflow: orchestrator -> {clarification |          *)
(* research -> synthesis} -> END, the shared AgentState, the three-layer   *)
(* loop guard of the orchestrator and the thread persistence of a session. *)
(***************************************************************************)
EXTENDS Integers, Sequences, FiniteSets, TLC

(* ------------------------------ bounds -------------------------------- *)
\* number of chat requests (turns) explored on the session
MaxTurns == 3
\* number of capability faults injected in one behaviour: a Completion call
\* that raises or returns empty text, a tool loop that raises or ends without
\* a final answer, a checkpoint-store operation that raises
MaxFaults == 2
\* number of chat requests received at the same time
MaxRequests == 2
\* number of documents the retriever returns to one tool call
MaxDocs == 3

(* ----------------------------- constants ------------------------------ *)
DefaultMaxHistory == 10
DefaultMaxClarifications == 2
\* confidence scores in hundredths (0.0, 0.6, 0.8, 0.95)
Conf0 == 0
Conf1 == 60
Conf2 == 80
Conf3 == 95
\* confidence_score = None
NoScore == -1

None == "<None>"
Missing == "<missing>"
FallbackClarification == "Could you please provide more details about your question?"
FallbackSynthesis == "I encountered an error while processing your request."
ResearchFailedOutput == "Unable to complete research due to an error."
ResearchFailedObservation == "Research failed: error"

(* ----------------------------- messages ------------------------------- *)
HumanMessage(c) == [type |-> "human", content |-> c, tool_calls |-> <<>>]
AIMessage(c) == [type |-> "ai", content |-> c, tool_calls |-> <<>>]
AIToolCall(calls) == [type |-> "ai", content |-> "", tool_calls |-> calls]
ToolMessage(c) == [type |-> "tool", content |-> c, tool_calls |-> <<>>]

\* the text of the user message of the n-th chat request
UserTexts == <<"u1", "u2", "u3", "u4", "u5", "u6">>
UserText(n) == UserTexts[n]

Last(s) == s[Len(s)]

\* A message list is held as its length and its last TailLen messages: the
\* agents read a list only through len() and a window of at most max_history
\* messages, and every list operation of the program (append, +, slicing a
\* window) is computed exactly on this form.
TailLen == DefaultMaxHistory
Clip(seq) ==
    IF Len(seq) > TailLen THEN SubSeq(seq, Len(seq) - TailLen + 1, Len(seq)) ELSE seq
\* the list holding the messages of seq
MessageList(seq) == [len |-> Len(seq), tail |-> Clip(seq)]
\* list.append
append(msgs, m) == [len |-> msgs.len + 1, tail |-> Clip(Append(msgs.tail, m))]

\* operator.add on two lists (the reducer of the messages channel)
add(a, b) == [len |-> a.len + b.len, tail |-> Clip(a.tail \o b.tail)]

\* state["messages"][-max_history:] if len(state["messages"]) > max_history
\* else state["messages"], for 1 <= max_history <= TailLen
Window(msgs, h) ==
    IF msgs.len > h
    THEN SubSeq(msgs.tail, Len(msgs.tail) - h + 1, Len(msgs.tail))
    ELSE msgs.tail

(* --------------------------- configuration ---------------------------- *)
\* history windows an agent may be configured with
HistoryWindows == {1, DefaultMaxHistory}
MaxClarificationsValues == {1, DefaultMaxClarifications}
\* agent_config["max_iterations"] of the research agent
MaxIterationsValues == {1}

(* ------------------------- Completion outcomes ------------------------ *)
\* what the orchestrator's model may answer
DecisionTexts == {"CLARIFICATION", "Needs clarification", "RESEARCH", ""}
\* faulty variant of Upper: the letter case is left as it is
UpperLeavingCase(t) == t

\* str.upper()
Upper(t) ==
    CASE t = "CLARIFICATION" -> "CLARIFICATION"
      [] t = "Needs clarification" -> "NEEDS CLARIFICATION"
      [] t = "RESEARCH" -> "RESEARCH"
      [] OTHER -> t
\* "CLARIFICATION" in u
ContainsClarification(u) == u \in {"CLARIFICATION", "NEEDS CLARIFICATION"}

Ok(t) == [ok |-> TRUE, text |-> t]
Raised == [ok |-> FALSE, text |-> ""]
DecisionOutcomes == {Ok(t) : t \in DecisionTexts} \cup {Raised}
ClarificationOutcomes == {Ok("Which paper do you mean?"), Ok(""), Raised}
SynthesisOutcomes == {Ok("Final answer"), Ok(""), Raised}

\* one agent's dealings with the prompt store and Completion (langfuse: the
\* agent has a Langfuse client and its prompt provider is langfuse):
\* prompt_ok: get_prompt/compile succeeded; gen1: the first generate call;
\* gen2: the fallback generate call
LlmIO(outs) == [prompt_ok : BOOLEAN, gen1 : outs, gen2 : outs]

\* the if/try/except ladder around llm_client.generate shared by the
\* orchestrator, clarification and synthesis agents
Generate(langfuse, io) ==
    IF langfuse
    THEN IF ~io.prompt_ok THEN [out |-> io.gen2, calls |-> 1]
         ELSE IF ~io.gen1.ok THEN [out |-> io.gen2, calls |-> 2]
         ELSE [out |-> io.gen1, calls |-> 1]
    ELSE [out |-> io.gen1, calls |-> 1]

\* every way that ladder can end for an agent whose model answers from outs
GenerateResults(outs) ==
    {Generate(langfuse, io) : langfuse \in BOOLEAN, io \in LlmIO(outs)}

(* ------------------------------- state -------------------------------- *)
EmptyContext ==
    [observations |-> <<>>, pdf_results |-> <<>>, web_results |-> <<>>,
     tool_history |-> <<>>, final_output |-> Missing]

\* create_initial_state starting the clarification counter at one
create_initial_state_counting(messages) ==
    [messages |-> MessageList(messages),
     next_agent |-> "orchestrator",
     last_agent |-> None,
     iteration |-> 0,
     context |-> EmptyContext,
     clarification_needed |-> FALSE,
     missing_context |-> <<>>,
     clarification_count |-> 1,
     final_answer |-> None,
     confidence_score |-> NoScore]

create_initial_state(messages) ==
    [messages |-> MessageList(messages),
     next_agent |-> "orchestrator",
     last_agent |-> None,
     iteration |-> 0,
     context |-> EmptyContext,
     clarification_needed |-> FALSE,
     missing_context |-> <<>>,
     clarification_count |-> 0,
     final_answer |-> None,
     confidence_score |-> NoScore]

(* ---------------------------- orchestrator ---------------------------- *)
\* faulty variant of Layer: the counter guard is never consulted
LayerWithoutCounterGuard(s, max_history, max_clarifications) ==
    LET messages == Window(s.messages, max_history) IN
    IF /\ Len(messages) >= 2
       /\ messages[Len(messages) - 1].type = "ai"
       /\ Last(messages).type = "human"
       /\ s.last_agent = "clarification"
    THEN 2
    ELSE 3

\* the layer that decides an Orchestrator execution on state s
Layer(s, max_history, max_clarifications) ==
    LET messages == Window(s.messages, max_history) IN
    IF s.clarification_count >= max_clarifications THEN 1
    ELSE IF /\ Len(messages) >= 2
            /\ messages[Len(messages) - 1].type = "ai"
            /\ Last(messages).type = "human"
            /\ s.last_agent = "clarification"
         THEN 2
         ELSE 3

\* faulty variant of CounterGuard: the counter is not reset
CounterGuardKeepingCount(s) ==
    [s EXCEPT !.next_agent = "research",
              !.clarification_needed = FALSE,
              !.iteration = @ + 1]

\* layer 1: the counter guard's assignments
CounterGuard(s) ==
    [s EXCEPT !.next_agent = "research",
              !.clarification_needed = FALSE,
              !.clarification_count = 0,
              !.iteration = @ + 1]

\* faulty variant of FollowUpGuard: missing_context is cleared as well
FollowUpGuardClearingContext(s) ==
    [s EXCEPT !.next_agent = "research",
              !.clarification_needed = FALSE,
              !.clarification_count = 0,
              !.missing_context = <<>>,
              !.iteration = @ + 1]

\* layer 2: the follow-up guard's assignments
FollowUpGuard(s) ==
    [s EXCEPT !.next_agent = "research",
              !.clarification_needed = FALSE,
              !.clarification_count = 0,
              !.iteration = @ + 1]

\* faulty variant of ModelDecision: a clarification decision counts twice
ModelDecisionCountingTwice(s, out) ==
    IF ~out.ok
    THEN [s EXCEPT !.next_agent = "research",
                   !.clarification_needed = FALSE,
                   !.iteration = @ + 1]
    ELSE IF ContainsClarification(Upper(out.text))
    THEN [s EXCEPT !.next_agent = "clarification",
                   !.clarification_needed = TRUE,
                   !.missing_context = <<"Query is vague or ambiguous">>,
                   !.clarification_count = s.clarification_count + 2,
                   !.iteration = @ + 1]
    ELSE [s EXCEPT !.next_agent = "research",
                   !.clarification_needed = FALSE,
                   !.clarification_count = 0,
                   !.iteration = @ + 1]

\* layer 3: the model-driven decision on Completion outcome out
ModelDecision(s, out) ==
    IF ~out.ok
    THEN [s EXCEPT !.next_agent = "research",
                   !.clarification_needed = FALSE,
                   !.iteration = @ + 1]
    ELSE IF ContainsClarification(Upper(out.text))
    THEN [s EXCEPT !.next_agent = "clarification",
                   !.clarification_needed = TRUE,
                   !.missing_context = <<"Query is vague or ambiguous">>,
                   !.clarification_count = s.clarification_count + 1,
                   !.iteration = @ + 1]
    ELSE [s EXCEPT !.next_agent = "research",
                   !.clarification_needed = FALSE,
                   !.clarification_count = 0,
                   !.iteration = @ + 1]

\* MasterOrchestrator.execute, g being what its Completion ladder would
\* give: the State it returns, the layer that decided and the number of
\* Completion calls it made
OrchestratorExecute(s, max_history, max_clarifications, g) ==
    LET layer == Layer(s, max_history, max_clarifications) IN
    IF layer = 1 THEN [state |-> CounterGuard(s), layer |-> 1, calls |-> 0]
    ELSE IF layer = 2 THEN [state |-> FollowUpGuard(s), layer |-> 2, calls |-> 0]
    ELSE [state |-> ModelDecision(s, g.out), layer |-> 3, calls |-> g.calls]

(* ---------------------------- clarification --------------------------- *)
\* ClarificationAgent.execute
ClarificationExecute(s, g) ==
    LET text == IF g.out.ok THEN g.out.text ELSE FallbackClarification
    IN [s EXCEPT !.messages = append(@, AIMessage(text)),
                 !.final_answer = text,
                 !.next_agent = "END",
                 !.last_agent = "clarification"]

(* ------------------------------ research ------------------------------ *)
PdfTool == "pdf_retrieval"
WebTool == "web_search"
\* tool_call.get('name', 'unknown'): a tool call that names no tool
UnknownTool == "unknown"
ResearchAnswer == "Research answer"

\* what the tool loop (agent.invoke) may add after the messages it was sent
LoopOutputs ==
    { <<AIMessage(ResearchAnswer)>>,
      <<AIMessage("")>>,
      <<AIToolCall(<<PdfTool, PdfTool>>), ToolMessage("pdf chunks"),
        ToolMessage("pdf chunks"), AIToolCall(<<WebTool>>),
        ToolMessage("web results"), AIMessage(ResearchAnswer)>>,
      <<AIToolCall(<<WebTool>>), ToolMessage("web results")>>,
      <<AIToolCall(<<PdfTool, WebTool, UnknownTool>>), ToolMessage("pdf chunks"),
        ToolMessage("web results"), ToolMessage("Error: no such tool"),
        AIMessage(ResearchAnswer)>> }

\* agent.invoke either raises or returns the messages sent plus new ones
ResearchOutcomes == {[ok |-> TRUE, new |-> n] : n \in LoopOutputs}
                    \cup {[ok |-> FALSE, new |-> <<>>]}

\* the tool loop raised, ended without a final answer or with an empty one,
\* or called a tool that does not exist
LoopFault(r) ==
    IF /\ r.ok
       /\ r.new[Len(r.new)].type = "ai"
       /\ r.new[Len(r.new)].tool_calls = <<>>
       /\ r.new[Len(r.new)].content # ""
       /\ \A i \in 1..Len(r.new) : \A j \in 1..Len(r.new[i].tool_calls) :
             r.new[i].tool_calls[j] # UnknownTool
    THEN 0 ELSE 1

\* the names of all tool calls of a message list, in order
RECURSIVE ToolCalls(_)
ToolCalls(msgs) ==
    IF msgs = <<>> THEN <<>>
    ELSE msgs[1].tool_calls \o ToolCalls(Tail(msgs))

\* faulty variant of Dedup: a name is recorded at every occurrence
DedupKeepingRepeats(names, seen) == seen \o names

\* tool_history: each name once, at its first occurrence
RECURSIVE Dedup(_, _)
Dedup(names, seen) ==
    IF names = <<>> THEN seen
    ELSE IF \E i \in 1..Len(seen) : seen[i] = names[1]
         THEN Dedup(Tail(names), seen)
         ELSE Dedup(Tail(names), Append(seen, names[1]))

\* observations: one "Used tool: <name>" per entry of tool_history
Observations(history) ==
    [i \in 1..Len(history) |->
        IF history[i] = PdfTool THEN "Used tool: pdf_retrieval"
        ELSE IF history[i] = WebTool THEN "Used tool: web_search"
        ELSE "Used tool: unknown"]

\* the tool-decision steps of a tool loop: its AI messages asking for tools
ToolDecisionSteps(msgs) ==
    Cardinality({i \in 1..Len(msgs) :
                    msgs[i].type = "ai" /\ msgs[i].tool_calls # <<>>})

IsFinalAI(m) == m.type = "ai" /\ m.tool_calls = <<>>

\* the message ResearchSupervisor.execute appends: the last AI message
\* without tool calls of result["messages"], else the last message
FinalMessage(result) ==
    IF \E i \in 1..Len(result) : IsFinalAI(result[i])
    THEN result[CHOOSE i \in 1..Len(result) :
                    /\ IsFinalAI(result[i])
                    /\ \A j \in (i + 1)..Len(result) : ~IsFinalAI(result[j])]
    ELSE Last(result)

\* faulty variant of ResearchExecute: the failure notice is appended to
\* messages
ResearchExecuteAppendingNotice(s, max_history, r) ==
    IF r.ok
    THEN LET result == Window(s.messages, max_history) \o r.new
             tool_history == Dedup(ToolCalls(result), <<>>)
         IN [s EXCEPT !.context = [@ EXCEPT !.observations = Observations(tool_history),
                                            !.tool_history = tool_history,
                                            !.final_output = Last(result).content],
                      !.messages = append(@, FinalMessage(result)),
                      !.next_agent = "synthesis",
                      !.last_agent = "research",
                      !.iteration = @ + 1]
    ELSE [s EXCEPT !.messages = append(@, AIMessage(ResearchFailedOutput)),
                   !.context = [@ EXCEPT !.observations = <<ResearchFailedObservation>>,
                                         !.final_output = ResearchFailedOutput],
                   !.next_agent = "synthesis",
                   !.iteration = @ + 1]

\* ResearchSupervisor.execute
ResearchExecute(s, max_history, r) ==
    IF r.ok
    THEN LET result == Window(s.messages, max_history) \o r.new
             tool_history == Dedup(ToolCalls(result), <<>>)
         IN [s EXCEPT !.context = [@ EXCEPT !.observations = Observations(tool_history),
                                            !.tool_history = tool_history,
                                            !.final_output = Last(result).content],
                      !.messages = append(@, FinalMessage(result)),
                      !.next_agent = "synthesis",
                      !.last_agent = "research",
                      !.iteration = @ + 1]
    ELSE [s EXCEPT !.context = [@ EXCEPT !.observations = <<ResearchFailedObservation>>,
                                         !.final_output = ResearchFailedOutput],
                   !.next_agent = "synthesis",
                   !.iteration = @ + 1]

(* ------------------------------ synthesis ----------------------------- *)
\* faulty variant of calculate_confidence: the 0.8 step is missing
calculate_confidence_without_step(observations) ==
    LET num_observations == Len(observations) IN
    IF num_observations = 0 THEN Conf0
    ELSE IF num_observations = 1 THEN Conf1
    ELSE Conf3

\* AnswerSynthesisAgent._calculate_confidence
calculate_confidence(observations) ==
    LET num_observations == Len(observations) IN
    IF num_observations = 0 THEN Conf0
    ELSE IF num_observations = 1 THEN Conf1
    ELSE IF num_observations = 2 THEN Conf2
    ELSE Conf3

\* state["context"].get("final_output", "")
FinalOutput(context) ==
    IF context.final_output = Missing THEN "" ELSE context.final_output

\* the query of the synthesis prompt: the first HumanMessage of the window
SynthesisQuery(s, max_history) ==
    LET messages == Window(s.messages, max_history) IN
    IF \E i \in 1..Len(messages) : messages[i].type = "human"
    THEN messages[CHOOSE i \in 1..Len(messages) :
                      /\ messages[i].type = "human"
                      /\ \A j \in 1..(i - 1) : messages[j].type # "human"].content
    ELSE "Unknown query"

\* faulty variant of SynthesisExecute: a failed Completion call leaves the
\* answer unset
SynthesisExecuteWithoutFallback(s, g) ==
    IF g.out.ok
    THEN [s EXCEPT !.messages = append(@, AIMessage(g.out.text)),
                   !.final_answer = g.out.text,
                   !.confidence_score = calculate_confidence(s.context.observations),
                   !.next_agent = "END",
                   !.last_agent = "synthesis"]
    ELSE [s EXCEPT !.confidence_score = Conf0,
                   !.next_agent = "END"]

\* faulty variant of SynthesisExecute: the fallback answer is scored by
\* the observations
SynthesisExecuteScoringFallback(s, g) ==
    LET final_output == FinalOutput(s.context)
        fallback == IF final_output # "" THEN final_output ELSE FallbackSynthesis
    IN
    IF g.out.ok
    THEN [s EXCEPT !.messages = append(@, AIMessage(g.out.text)),
                   !.final_answer = g.out.text,
                   !.confidence_score = calculate_confidence(s.context.observations),
                   !.next_agent = "END",
                   !.last_agent = "synthesis"]
    ELSE [s EXCEPT !.messages = append(@, AIMessage(fallback)),
                   !.final_answer = fallback,
                   !.confidence_score = calculate_confidence(s.context.observations),
                   !.next_agent = "END"]

\* AnswerSynthesisAgent.execute
SynthesisExecute(s, g) ==
    LET final_output == FinalOutput(s.context)
        fallback == IF final_output # "" THEN final_output ELSE FallbackSynthesis
    IN
    IF g.out.ok
    THEN [s EXCEPT !.messages = append(@, AIMessage(g.out.text)),
                   !.final_answer = g.out.text,
                   !.confidence_score = calculate_confidence(s.context.observations),
                   !.next_agent = "END",
                   !.last_agent = "synthesis"]
    ELSE [s EXCEPT !.messages = append(@, AIMessage(fallback)),
                   !.final_answer = fallback,
                   !.confidence_score = Conf0,
                   !.next_agent = "END"]

(* --------------------------- workflow engine -------------------------- *)
\* the channel values after a node returned ret: every key is overwritten
\* with the returned value except messages, whose channel is declared with
\* the reducer add; the node returns the list it was handed (and appended
\* to in place), so the channel holds that list and is handed it again
ApplyNode(ret) == [ret EXCEPT !.messages = add(ret.messages, ret.messages)]

\* the channel values after the input of invoke was written over the
\* channels of a thread holding base_messages
ApplyInput(base_messages, input) ==
    [input EXCEPT !.messages = add(base_messages, input.messages)]

\* faulty variant of Route: the clarification edge leads to research
RouteWithoutClarification(s) ==
    IF s.next_agent = "clarification" THEN "research"
    ELSE IF s.next_agent = "research" THEN "research"
    ELSE "route_error"

\* route_after_orchestrator and the conditional edge map
Route(s) ==
    IF s.next_agent = "clarification" THEN "clarification"
    ELSE IF s.next_agent = "research" THEN "research"
    ELSE "route_error"

ClarificationPath == <<"orchestrator", "clarification">>
ResearchPath == <<"orchestrator", "research", "synthesis">>

VARIABLES
    cfg,             \* agent_configs / constructor arguments of the workflow
    stored,          \* checkpoint store: the thread of the session
    state,           \* the State of the turn in flight (channel values)
    pc,              \* idle | orchestrator | clarification | research | synthesis | END | error | route_error
    turn,            \* chat requests received so far
    trace,           \* nodes executed in the current turn
    prev,            \* the State the last node executed was handed
    returned,        \* the State that node returned
    raised,          \* nodes of the turn whose capability call ended in an exception
    loop,            \* what the tool loop gave the Research node of the turn
    orch_layer,      \* layer that decided the Orchestrator execution of the turn (0: not run)
    orch_invoked,    \* that execution invoked Completion
    op,              \* the last thread-management call since the last turn, and how it ended
    decision,        \* what the Completion ladder of the Orchestrator ended with, while it is the last node executed
    resumed,         \* the current turn loaded the stored thread state
    faults,          \* capability faults so far
    response,        \* what the last finished chat request returned
    consec_clar,     \* consecutive finished turns that ended in the clarification branch
    chain_clar,      \* the same, counted over turns each resuming the stored thread state
    one_process,     \* requests received at the same time are served by one server process
    threads,         \* checkpoint store: the thread of each session, for such requests
    requests,        \* requests received at the same time: session, position, State
    min_similarity_score, \* the PDF retrieval tool's threshold, in hundredths
    documents,       \* what the retriever returned to the tool's last call
    tool_output      \* what that call returned to the tool loop

vars == <<cfg, stored, state, pc, turn, trace, prev, returned, raised, loop,
          orch_layer, orch_invoked, decision, op, resumed, faults, response,
          consec_clar, chain_clar, one_process, threads, requests,
          min_similarity_score, documents, tool_output>>

\* what requests received at the same time are run on
racing == <<one_process, threads, requests>>

\* what a call of the PDF retrieval tool is run on
tooling == <<min_similarity_score, documents, tool_output>>

NoThread == [exists |-> FALSE, values |-> create_initial_state(<<>>)]
NoResponse == [status |-> 0, answer |-> None]
NoLoop == [ok |-> FALSE, new |-> <<>>]
NoDecision == [out |-> Raised, calls |-> 0]
NoOp == [name |-> "none", outcome |-> "none"]
NoOutput == [called |-> FALSE, found |-> FALSE, docs |-> <<>>]
\* similarity scores and thresholds, in hundredths
Scores == {49, 50, 51, 70}
MinScores == {50, 70}
\* the tool before any call, with the default threshold
ToolIdle ==
    /\ min_similarity_score = 50
    /\ documents = <<>>
    /\ tool_output = NoOutput
Sessions == {"A", "B"}
RequestIds == 1..MaxRequests
NoRequest == [session |-> "A", pc |-> "none", state |-> create_initial_state(<<>>),
              decision |-> NoDecision]

\* every variable of the single session at its value after construction
SessionIdle ==
    /\ stored = NoThread
    /\ state = create_initial_state(<<>>)
    /\ pc = "idle"
    /\ turn = 0
    /\ trace = <<>>
    /\ prev = create_initial_state(<<>>)
    /\ returned = create_initial_state(<<>>)
    /\ raised = {}
    /\ loop = NoLoop
    /\ orch_layer = 0
    /\ orch_invoked = FALSE
    /\ decision = NoDecision
    /\ op = NoOp
    /\ resumed = FALSE
    /\ faults = 0
    /\ response = NoResponse
    /\ consec_clar = 0
    /\ chain_clar = 0

Init ==
    /\ cfg \in [max_history : HistoryWindows,
                max_clarifications : MaxClarificationsValues,
                max_iterations : MaxIterationsValues,
                checkpointer : BOOLEAN]
    /\ SessionIdle
    /\ ToolIdle
    /\ one_process = TRUE
    /\ threads = [s \in Sessions |-> NoThread]
    /\ requests = [i \in RequestIds |-> NoRequest]

\* a checkpoint-store operation succeeds, or raises while faults are left
StoreResults == {ok \in BOOLEAN : ok \/ faults < MaxFaults}

\* the faults of a Completion outcome
CompletionFault(out) == IF out.ok /\ out.text # "" THEN 0 ELSE 1

\* AgentWorkflow.thread_exists, list_ok telling whether the store answered
thread_exists(list_ok) ==
    IF ~cfg.checkpointer THEN FALSE
    ELSE IF list_ok THEN stored.exists ELSE FALSE

\* the messages the channels of the session's thread hold before the input
ThreadMessages ==
    IF cfg.checkpointer /\ stored.exists
    THEN stored.values.messages ELSE MessageList(<<>>)

StartTurn(input, is_resumed, failed) ==
    /\ turn' = turn + 1
    /\ state' = ApplyInput(ThreadMessages, input)
    /\ pc' = "orchestrator"
    /\ trace' = <<>>
    /\ prev' = state'
    /\ returned' = state'
    /\ raised' = {}
    /\ loop' = NoLoop
    /\ orch_layer' = 0
    /\ orch_invoked' = FALSE
    /\ decision' = NoDecision
    /\ resumed' = is_resumed
    /\ faults' = IF failed THEN faults + 1 ELSE faults
    /\ op' = NoOp
    /\ UNCHANGED <<cfg, stored, response, consec_clar, chain_clar,
                   racing, tooling>>

\* chat: no thread found for the session, the turn starts from
\* create_initial_state
ChatNew ==
    /\ pc = "idle"
    /\ turn < MaxTurns
    /\ \E list_ok \in StoreResults :
        /\ ~thread_exists(list_ok)
        /\ StartTurn(create_initial_state(<<HumanMessage(UserText(turn + 1))>>),
                     FALSE, ~list_ok /\ cfg.checkpointer)

\* chat: the thread exists, the turn starts from its stored state extended
\* with the new user message
ChatResume ==
    /\ pc = "idle"
    /\ turn < MaxTurns
    /\ thread_exists(TRUE)
    /\ StartTurn([stored.values EXCEPT
                    !.messages = add(@, MessageList(<<HumanMessage(UserText(turn + 1))>>))],
                 TRUE, FALSE)

\* chat: the thread exists, get_thread_state raises and chat answers with
\* an HTTP error
ChatLoadFails ==
    /\ pc = "idle"
    /\ turn < MaxTurns
    /\ thread_exists(TRUE)
    /\ faults < MaxFaults
    /\ turn' = turn + 1
    /\ pc' = "error"
    /\ trace' = <<>>
    /\ raised' = {}
    /\ loop' = NoLoop
    /\ orch_layer' = 0
    /\ orch_invoked' = FALSE
    /\ decision' = NoDecision
    /\ resumed' = FALSE
    /\ faults' = faults + 1
    /\ op' = NoOp
    /\ UNCHANGED <<cfg, stored, state, prev, returned, response, consec_clar,
                   chain_clar, racing, tooling>>

\* one node of the graph ran on state and returned ret (fault: the faults
\* its capability calls suffered; threw: the call ended in an exception the
\* node caught); the engine merges ret into the channels, writes the
\* checkpoint and follows the edge to next
NodeStep(node, ret, next, fault, threw) ==
    /\ faults + fault <= MaxFaults
    /\ prev' = state
    /\ returned' = ret
    /\ state' = ApplyNode(ret)
    /\ trace' = Append(trace, node)
    /\ raised' = IF threw THEN raised \cup {node} ELSE raised
    /\ \E put_ok \in BOOLEAN :
        IF put_ok
        THEN /\ pc' = next
             /\ stored' = IF cfg.checkpointer
                          THEN [exists |-> TRUE, values |-> state']
                          ELSE stored
             /\ faults' = faults + fault
        ELSE /\ cfg.checkpointer
             /\ faults + fault < MaxFaults
             /\ pc' = "error"
             /\ faults' = faults + fault + 1
             /\ UNCHANGED stored
    /\ op' = NoOp
    /\ UNCHANGED <<cfg, turn, resumed, response, consec_clar, chain_clar,
                   racing, tooling>>

Orchestrator ==
    /\ pc = "orchestrator"
    /\ \E g \in GenerateResults(DecisionOutcomes) :
        LET r == OrchestratorExecute(state, cfg.max_history,
                                     cfg.max_clarifications, g)
            threw == r.layer = 3 /\ ~g.out.ok
        IN /\ NodeStep("orchestrator", r.state, Route(r.state),
                       IF threw THEN 1 ELSE 0, threw)
           /\ orch_layer' = r.layer
           /\ orch_invoked' = (r.calls > 0)
           /\ decision' = IF r.layer = 3 THEN g ELSE NoDecision
    /\ UNCHANGED loop

Clarification ==
    /\ pc = "clarification"
    /\ \E g \in GenerateResults(ClarificationOutcomes) :
        NodeStep("clarification", ClarificationExecute(state, g), "END",
                 CompletionFault(g.out), ~g.out.ok)
    /\ decision' = NoDecision
    /\ UNCHANGED <<orch_layer, orch_invoked, loop>>

Research ==
    /\ pc = "research"
    /\ \E r \in ResearchOutcomes :
        /\ NodeStep("research", ResearchExecute(state, cfg.max_history, r),
                    "synthesis", LoopFault(r), ~r.ok)
        /\ loop' = r
    /\ decision' = NoDecision
    /\ UNCHANGED <<orch_layer, orch_invoked>>

Synthesis ==
    /\ pc = "synthesis"
    /\ \E g \in GenerateResults(SynthesisOutcomes) :
        NodeStep("synthesis", SynthesisExecute(state, g), "END",
                 CompletionFault(g.out), ~g.out.ok)
    /\ decision' = NoDecision
    /\ UNCHANGED <<orch_layer, orch_invoked, loop>>

\* invoke returned the final State and chat builds the response
Respond ==
    /\ pc = "END"
    /\ pc' = "idle"
    /\ response' = [status |-> 200, answer |-> state.final_answer]
    /\ consec_clar' = IF trace = ClarificationPath THEN consec_clar + 1 ELSE 0
    /\ chain_clar' = IF trace = ClarificationPath
                     THEN (IF resumed THEN chain_clar + 1 ELSE 1)
                     ELSE 0
    /\ UNCHANGED <<cfg, stored, state, turn, trace, prev, returned, raised,
                   loop, orch_layer, orch_invoked, decision, op, resumed, faults,
                   racing, tooling>>

\* an exception left invoke (or get_thread_state) and chat turns it into an
\* HTTP error
RespondError ==
    /\ pc \in {"error", "route_error"}
    /\ pc' = "idle"
    /\ response' = [status |-> 500, answer |-> None]
    /\ consec_clar' = 0
    /\ chain_clar' = 0
    /\ UNCHANGED <<cfg, stored, state, turn, trace, prev, returned, raised,
                   loop, orch_layer, orch_invoked, decision, op, resumed, faults,
                   racing, tooling>>

\* AgentWorkflow.get_thread_state: how a call ends (store_ok: the store
\* answered)
get_thread_state(store_ok) ==
    IF ~cfg.checkpointer THEN "ValueError"
    ELSE IF store_ok THEN "returned" ELSE "raised"

\* delete_thread returning quietly when no checkpoint store is configured
delete_thread_quietly(store_ok) ==
    IF ~cfg.checkpointer THEN "returned"
    ELSE IF store_ok THEN "returned" ELSE "raised"

\* AgentWorkflow.delete_thread: how a call ends
delete_thread(store_ok) ==
    IF ~cfg.checkpointer THEN "ValueError"
    ELSE IF store_ok THEN "returned" ELSE "raised"

\* a thread-management call made between two turns
ThreadCall(name, outcome, store_ok) ==
    /\ pc = "idle"
    /\ op' = [name |-> name, outcome |-> outcome]
    /\ faults' = IF cfg.checkpointer /\ ~store_ok THEN faults + 1 ELSE faults
    /\ UNCHANGED <<cfg, state, pc, turn, trace, prev, returned, raised, loop,
                   orch_layer, orch_invoked, decision, resumed, response,
                   consec_clar, chain_clar, racing, tooling>>

\* get_thread_state is called on the session's thread
GetThreadState ==
    \E store_ok \in StoreResults :
        /\ ThreadCall("get_thread_state", get_thread_state(store_ok), store_ok)
        /\ UNCHANGED stored

\* delete_thread is called on the session's thread
DeleteThread ==
    \E store_ok \in StoreResults :
        /\ ThreadCall("delete_thread", delete_thread(store_ok), store_ok)
        /\ stored' = IF delete_thread(store_ok) = "returned" THEN NoThread ELSE stored

Next ==
    \/ ChatNew
    \/ ChatResume
    \/ ChatLoadFails
    \/ Orchestrator
    \/ Clarification
    \/ Research
    \/ Synthesis
    \/ Respond
    \/ RespondError

Spec == Init /\ [][Next]_vars

\* a workflow built with the default history window and clarification bound
\* (the factory passes no max_clarifications), with or without checkpoint
\* store
ThreadInit ==
    /\ Init
    /\ cfg.max_history = DefaultMaxHistory
    /\ cfg.max_clarifications = DefaultMaxClarifications

\* turns, with thread-management calls between them
ThreadNext ==
    \/ Next
    \/ GetThreadState
    \/ DeleteThread

ThreadSpec == ThreadInit /\ [][ThreadNext]_vars

(* ------------------------ the PDF retrieval tool ----------------------- *)
\* the lists the retriever may return: up to MaxDocs documents in rank
\* order, each with the place it was retrieved at and its score
DocLists ==
    UNION {[1..n -> Scores] : n \in 0..MaxDocs}

Retrieved(scores) == [i \in 1..Len(scores) |-> [source |-> i, score |-> scores[i]]]

\* faulty variant of Filter: a document at the threshold is kept
FilterKeepingThreshold(docs, min_score) ==
    SelectSeq(docs, LAMBDA doc : doc.score >= min_score)

\* [doc for doc in documents if doc['score'] > self.min_similarity_score]
Filter(docs, min_score) ==
    SelectSeq(docs, LAMBDA doc : doc.score > min_score)

\* the text returned: the notice, or the documents numbered from 1
Format(filtered_docs) ==
    IF filtered_docs = <<>>
    THEN [found |-> FALSE, docs |-> <<>>]
    ELSE [found |-> TRUE,
          docs |-> [i \in 1..Len(filtered_docs) |->
                      [number |-> i, source |-> filtered_docs[i].source,
                       score |-> filtered_docs[i].score]]]

\* PDFRetrievalTool._run
PdfRetrievalRun ==
    /\ \E scores \in DocLists :
         LET out == Format(Filter(Retrieved(scores), min_similarity_score))
         IN /\ documents' = Retrieved(scores)
            /\ tool_output' = [called |-> TRUE, found |-> out.found,
                               docs |-> out.docs]
    /\ UNCHANGED <<cfg, stored, state, pc, turn, trace, prev, returned,
                   raised, loop, orch_layer, orch_invoked, decision, op,
                   resumed, faults, response, consec_clar, chain_clar,
                   racing, min_similarity_score>>

\* a workflow whose PDF retrieval tool is configured with one of the
\* thresholds
ToolInit ==
    /\ cfg \in [max_history : {DefaultMaxHistory},
                max_clarifications : {DefaultMaxClarifications},
                max_iterations : MaxIterationsValues,
                checkpointer : {TRUE}]
    /\ SessionIdle
    /\ one_process = TRUE
    /\ threads = [s \in Sessions |-> NoThread]
    /\ requests = [i \in RequestIds |-> NoRequest]
    /\ min_similarity_score \in MinScores
    /\ documents = <<>>
    /\ tool_output = NoOutput

ToolNext == PdfRetrievalRun

ToolSpec == ToolInit /\ [][ToolNext]_vars

(* ------------------- requests received at the same time ---------------- *)
\* the request is between thread_exists and its response
InFlight(i) == requests[i].pc \notin {"none", "waiting", "done"}

\* chat has no await: a server process runs a request from its first line
\* to its response before it takes the next one; requests served by
\* different processes run side by side
MayRun(i) == one_process => \A j \in RequestIds \ {i} : ~InFlight(j)

\* faulty variant of Put: the checkpoint is written to every thread
PutEverywhere(ts, thread_id, values) ==
    [t \in Sessions |-> [exists |-> TRUE, values |-> values]]

\* the checkpointer writes a checkpoint of the thread thread_id
Put(ts, thread_id, values) ==
    [ts EXCEPT ![thread_id] = [exists |-> TRUE, values |-> values]]

\* what Completion and the tool loop answer to these requests
RaceDecisions == {[out |-> Ok(t), calls |-> 1] : t \in {"CLARIFICATION", "RESEARCH"}}
RaceClarification == [out |-> Ok("Which paper do you mean?"), calls |-> 1]
RaceLoop == [ok |-> TRUE, new |-> <<AIMessage(ResearchAnswer)>>]
RaceSynthesis == [out |-> Ok("Final answer"), calls |-> 1]

\* chat up to the call of invoke: thread_exists, then the State to hand in
RaceChat(i) ==
    LET r == requests[i]
        t == threads[r.session]
        m == MessageList(<<HumanMessage(UserText(i))>>)
        input == IF t.exists
                 THEN [t.values EXCEPT !.messages = add(@, m)]
                 ELSE create_initial_state(<<HumanMessage(UserText(i))>>)
    IN /\ r.pc = "waiting"
       /\ MayRun(i)
       /\ requests' = [requests EXCEPT ![i] = [r EXCEPT !.pc = "invoke",
                                                        !.state = input]]
       /\ UNCHANGED <<cfg, stored, state, pc, turn, trace, prev, returned,
                      raised, loop, orch_layer, orch_invoked, decision, op,
                      resumed, faults, response, consec_clar, chain_clar,
                      one_process, threads, tooling>>

\* invoke loads the thread's latest checkpoint and applies the input to it
RaceInvoke(i) ==
    LET r == requests[i]
        t == threads[r.session]
        base == IF t.exists THEN t.values.messages ELSE MessageList(<<>>)
    IN /\ r.pc = "invoke"
       /\ MayRun(i)
       /\ requests' = [requests EXCEPT ![i] =
                          [r EXCEPT !.pc = "orchestrator",
                                    !.state = ApplyInput(base, r.state)]]
       /\ UNCHANGED <<cfg, stored, state, pc, turn, trace, prev, returned,
                      raised, loop, orch_layer, orch_invoked, decision, op,
                      resumed, faults, response, consec_clar, chain_clar,
                      one_process, threads, tooling>>

\* one node of the request's invoke ran and its checkpoint was written
RaceStep(i, node, ret, next, g) ==
    LET r == requests[i]
    IN /\ r.pc = node
       /\ MayRun(i)
       /\ requests' = [requests EXCEPT ![i] = [r EXCEPT !.pc = next,
                                                        !.state = ApplyNode(ret),
                                                        !.decision = g]]
       /\ threads' = Put(threads, r.session, ApplyNode(ret))
       /\ UNCHANGED <<cfg, stored, state, pc, turn, trace, prev, returned,
                      raised, loop, orch_layer, orch_invoked, decision, op,
                      resumed, faults, response, consec_clar, chain_clar,
                      one_process, tooling>>

RaceOrchestrator(i) ==
    \E g \in RaceDecisions :
        LET ret == OrchestratorExecute(requests[i].state, cfg.max_history,
                                       cfg.max_clarifications, g).state
        IN RaceStep(i, "orchestrator", ret, Route(ret), g)

RaceClarify(i) ==
    RaceStep(i, "clarification",
             ClarificationExecute(requests[i].state, RaceClarification),
             "END", requests[i].decision)

RaceResearch(i) ==
    RaceStep(i, "research",
             ResearchExecute(requests[i].state, cfg.max_history, RaceLoop),
             "synthesis", requests[i].decision)

RaceSynthesize(i) ==
    RaceStep(i, "synthesis",
             SynthesisExecute(requests[i].state, RaceSynthesis),
             "END", requests[i].decision)

\* invoke returned the final State and chat answers
RaceRespond(i) ==
    /\ requests[i].pc = "END"
    /\ requests' = [requests EXCEPT ![i].pc = "done"]
    /\ UNCHANGED <<cfg, stored, state, pc, turn, trace, prev, returned,
                   raised, loop, orch_layer, orch_invoked, decision, op,
                   resumed, faults, response, consec_clar, chain_clar,
                   one_process, threads, tooling>>

\* a workflow with checkpoint store and MaxRequests requests arriving, each
\* for one of the sessions, at one server process or at one process each
RaceInit ==
    /\ cfg \in [max_history : {DefaultMaxHistory},
                max_clarifications : {DefaultMaxClarifications},
                max_iterations : MaxIterationsValues,
                checkpointer : {TRUE}]
    /\ SessionIdle
    /\ ToolIdle
    /\ one_process \in BOOLEAN
    /\ threads = [s \in Sessions |-> NoThread]
    /\ requests \in [RequestIds ->
                       {[NoRequest EXCEPT !.session = s, !.pc = "waiting"] :
                           s \in Sessions}]

RaceNext ==
    \E i \in RequestIds :
        \/ RaceChat(i)
        \/ RaceInvoke(i)
        \/ RaceOrchestrator(i)
        \/ RaceClarify(i)
        \/ RaceResearch(i)
        \/ RaceSynthesize(i)
        \/ RaceRespond(i)

RaceSpec == RaceInit /\ [][RaceNext]_vars

\* the final State of the only turn of a session that nothing else touches
SoloTurn(i, g) ==
    LET input == create_initial_state(<<HumanMessage(UserText(i))>>)
        s0 == ApplyInput(MessageList(<<>>), input)
        o == ApplyNode(OrchestratorExecute(s0, cfg.max_history,
                                           cfg.max_clarifications, g).state)
    IN IF Route(o) = "clarification"
       THEN ApplyNode(ClarificationExecute(o, RaceClarification))
       ELSE ApplyNode(SynthesisExecute(
                ApplyNode(ResearchExecute(o, cfg.max_history, RaceLoop)),
                RaceSynthesis))

(* ------------------------------ properties ---------------------------- *)
\* C1: every turn executes exactly [orchestrator, clarification] or
\* [orchestrator, research, synthesis] and then reaches the terminal node:
\* the node about to run is the one the edge from the executed prefix leads
\* to (the conditional edge following the orchestrator's next_agent), no
\* other edge is taken, no node runs twice, and a turn has executed at most
\* 3 nodes, whatever Completion returned or raised.
TurnRunsOnePath ==
    /\ pc = "orchestrator" => trace = <<>>
    /\ pc = "clarification" =>
          trace = <<"orchestrator">> /\ returned.next_agent = "clarification"
    /\ pc = "research" =>
          trace = <<"orchestrator">> /\ returned.next_agent = "research"
    /\ pc = "synthesis" => trace = <<"orchestrator", "research">>
    /\ pc = "END" => trace \in {ClarificationPath, ResearchPath}
    /\ pc # "route_error"
    /\ Len(trace) <= 3

\* a turn in which the Completion calls of the orchestrator and the tool
\* loop of research both raised, and which ended on the research path
ResearchPathAfterFailures ==
    /\ pc = "END"
    /\ trace = ResearchPath
    /\ {"orchestrator", "research"} \subseteq raised

\* C2: counter guard (layer 1): an Orchestrator execution entered with
\* clarification_count >= max_clarifications returns next_agent = research,
\* clarification_count = 0, clarification_needed = false and iteration
\* one higher, and has made no Completion call, whatever the model would
\* have answered.
CounterGuardForcesResearch ==
    (trace = <<"orchestrator">> /\ prev.clarification_count >= cfg.max_clarifications)
    => /\ returned.next_agent = "research"
       /\ returned.clarification_count = 0
       /\ ~returned.clarification_needed
       /\ returned.iteration = prev.iteration + 1
       /\ ~orch_invoked

\* the Orchestrator was entered with the counter at the default maximum
CounterGuardFired ==
    /\ trace = <<"orchestrator">>
    /\ cfg.max_clarifications = DefaultMaxClarifications
    /\ prev.clarification_count >= cfg.max_clarifications
    /\ orch_layer = 1

\* C3: follow-up guard (layer 2): an Orchestrator execution entered with the
\* counter below max_clarifications, last_agent = clarification and the two
\* most recent messages of the state being (Assistant, User) returns
\* next_agent = research, clarification_count = 0 and iteration one higher,
\* and has made no Completion call, for every configured max_history.
FollowUpGuardForcesResearch ==
    (/\ trace = <<"orchestrator">>
     /\ prev.clarification_count < cfg.max_clarifications
     /\ prev.last_agent = "clarification"
     /\ prev.messages.len >= 2
     /\ prev.messages.tail[Len(prev.messages.tail) - 1].type = "ai"
     /\ Last(prev.messages.tail).type = "human")
    => /\ returned.next_agent = "research"
       /\ returned.clarification_count = 0
       /\ returned.iteration = prev.iteration + 1
       /\ ~orch_invoked

\* C4 (as stated): over any sequence of turns of the session at most
\* max_clarifications consecutive turns end in the clarification branch,
\* and the turn after max_clarifications such turns goes to research.
ClarificationLoopBounded ==
    /\ consec_clar <= cfg.max_clarifications
    /\ (consec_clar = cfg.max_clarifications /\ pc # "idle" /\ Len(trace) >= 2)
          => trace[2] = "research"

\* C4 (amended): over consecutive turns that each load the stored thread
\* state, at most max_clarifications end in the clarification branch, and
\* a turn that loads the stored state after max_clarifications such turns
\* is sent to research by a guard, without a Completion call.  A turn that
\* starts from create_initial_state (no checkpoint store, or thread_exists
\* answering false) starts the count again.
ClarificationChainBounded ==
    /\ chain_clar <= cfg.max_clarifications
    /\ (chain_clar = cfg.max_clarifications /\ resumed /\ pc # "idle" /\ Len(trace) >= 1)
          => /\ orch_layer \in {1, 2}
             /\ ~orch_invoked
             /\ Len(trace) >= 2 => trace[2] = "research"

\* the default maximum of clarification turns in a row was reached and the
\* next turn of the thread was forced to research by the counter guard
ChainForcedToResearch ==
    /\ cfg.max_clarifications = DefaultMaxClarifications
    /\ chain_clar = cfg.max_clarifications
    /\ resumed
    /\ pc = "END"
    /\ trace = ResearchPath
    /\ orch_layer = 1

\* C5: Scenario B across turns: when the previous turn of the session ended
\* in the clarification branch and this turn loaded the stored thread state
\* extended with the new User message, the Orchestrator is decided by a
\* guard (the follow-up guard, or the counter guard when the counter is
\* already at its maximum), makes no Completion call and routes to research.
FollowUpAcrossTurns ==
    (/\ cfg.checkpointer
     /\ consec_clar >= 1
     /\ resumed
     /\ pc # "idle"
     /\ Len(trace) >= 1)
    => /\ orch_layer \in {1, 2}
       /\ ~orch_invoked
       /\ Len(trace) >= 2 => trace[2] = "research"

\* C6: fail-open: a Clarification or Synthesis execution whose Completion
\* call raised returns a non-null final_answer and next_agent = END, a
\* Research execution whose tool loop raised returns next_agent = synthesis,
\* and every turn that ends has a non-null final_answer and next_agent = END.
FailOpen ==
    /\ (trace # <<>> /\ Last(trace) \in {"clarification", "synthesis"}
        /\ Last(trace) \in raised)
          => returned.final_answer # None /\ returned.next_agent = "END"
    /\ (trace # <<>> /\ Last(trace) = "research" /\ "research" \in raised)
          => returned.next_agent = "synthesis"
    /\ pc = "END" => state.final_answer # None /\ state.next_agent = "END"

\* a turn ended after both the tool loop of Research and the Completion
\* call of Synthesis raised
TurnEndedAfterTwoFailures ==
    /\ pc = "END"
    /\ raised = {"research", "synthesis"}
    /\ state.final_answer = ResearchFailedOutput

\* C7: a turn that ends has a non-empty final_answer, whatever the
\* capability calls returned (empty text included) or raised.
FinalAnswerNonEmpty ==
    pc = "END" => state.final_answer \notin {None, ""}

\* C8: no error of a capability port, the checkpoint store included, leaves
\* invoke as an exception: no turn is aborted after a node has run.
NoPortErrorLeavesInvoke ==
    ~(pc = "error" /\ Len(trace) >= 1)

\* C9: a Research execution whose tool loop returned appends exactly one
\* message, and that message is the last Assistant message without tool
\* calls among the messages the loop produced in this execution.
ResearchAppendsFinalAnswer ==
    (trace # <<>> /\ Last(trace) = "research" /\ "research" \notin raised)
    => /\ returned.messages.len = prev.messages.len + 1
       /\ \E i \in 1..Len(loop.new) :
             /\ IsFinalAI(loop.new[i])
             /\ \A j \in (i + 1)..Len(loop.new) : ~IsFinalAI(loop.new[j])
             /\ Last(returned.messages.tail) = loop.new[i]

\* C10: confidence step function: a Synthesis execution whose Completion
\* call succeeded returns confidence_score 0.0 for 0 observations, 0.6 for
\* exactly 1, 0.8 for exactly 2 and 0.95 for 3 or more.
ConfidenceStepFunction ==
    (trace # <<>> /\ Last(trace) = "synthesis" /\ "synthesis" \notin raised)
    => LET n == Len(prev.context.observations) IN
       /\ n = 0 => returned.confidence_score = Conf0
       /\ n = 1 => returned.confidence_score = Conf1
       /\ n = 2 => returned.confidence_score = Conf2
       /\ n >= 3 => returned.confidence_score = Conf3

\* Synthesis succeeded on three observations
ConfidenceOfThreeObservations ==
    /\ trace = ResearchPath
    /\ "synthesis" \notin raised
    /\ Len(prev.context.observations) = 3
    /\ returned.confidence_score = Conf3

\* C11: in every reachable state, after any sequence of turns and
\* Orchestrator executions starting from create_initial_state,
\* 0 <= clarification_count <= max_clarifications, in the State of the turn
\* in flight, in the State a node returned and in the stored thread state.
ClarificationCountInRange ==
    /\ state.clarification_count \in 0..cfg.max_clarifications
    /\ returned.clarification_count \in 0..cfg.max_clarifications
    /\ stored.values.clarification_count \in 0..cfg.max_clarifications

\* a turn ended in the clarification branch with the counter at the default
\* maximum
ClarificationCountAtMaximum ==
    /\ pc = "END"
    /\ trace = ClarificationPath
    /\ cfg.max_clarifications = DefaultMaxClarifications
    /\ state.clarification_count = cfg.max_clarifications

\* C20: after every Orchestrator execution that returns next_agent =
\* research (counter guard, follow-up guard, model decision or layer-3
\* failure), clarification_count = 0.
CountResetOnResearch ==
    (trace = <<"orchestrator">> /\ returned.next_agent = "research")
    => returned.clarification_count = 0

MessagesAppendOnly ==
    /\ (pc = "orchestrator" /\ resumed)
          => state.messages =
                append(stored.values.messages, HumanMessage(UserText(turn)))
    /\ (trace # <<>> /\ Last(trace) = "orchestrator")
          => state.messages = prev.messages
    /\ (trace # <<>> /\ Last(trace) \in {"clarification", "synthesis"})
          => /\ state.messages.len = prev.messages.len + 1
             /\ Last(state.messages.tail).type = "ai"
             /\ state.messages = append(prev.messages, Last(state.messages.tail))

\* C17: the State is persisted after each node: while a turn is between two
\* nodes (or has just ended) the stored thread state equals the State the
\* last completed node returned, and a turn that resumes the thread starts
\* from exactly the stored state extended with the new User message.
CheckpointIsLastReturnedState ==
    /\ (cfg.checkpointer /\ trace # <<>>
        /\ pc \in {"clarification", "research", "synthesis", "END"})
          => stored.values = returned
    /\ (pc = "orchestrator" /\ resumed)
          => state = [stored.values EXCEPT
                        !.messages = append(@, HumanMessage(UserText(turn)))]

\* C13: a turn on a session whose thread has no checkpoint (never used, or
\* removed by delete_thread) starts from the create_initial_state values:
\* next_agent orchestrator, last_agent None, iteration 0, clarification_count
\* 0, empty observations, results and tool_history, clarification_needed
\* false, final_answer None, and messages holding only the new User message;
\* and after delete_thread has returned the thread does not exist as long as
\* no turn has run.
FreshThreadStartsInitial ==
    /\ (pc = "orchestrator" /\ ~(cfg.checkpointer /\ stored.exists))
          => /\ state.next_agent = "orchestrator"
             /\ state.last_agent = None
             /\ state.iteration = 0
             /\ state.clarification_count = 0
             /\ state.context.observations = <<>>
             /\ state.context.pdf_results = <<>>
             /\ state.context.web_results = <<>>
             /\ state.context.tool_history = <<>>
             /\ state.clarification_needed = FALSE
             /\ state.final_answer = None
             /\ state.messages = MessageList(<<HumanMessage(UserText(turn))>>)
    /\ (pc = "idle" /\ op = [name |-> "delete_thread", outcome |-> "returned"])
          => /\ ~stored.exists
             /\ \A list_ok \in BOOLEAN : ~thread_exists(list_ok)

\* the second turn of a session starts afresh after delete_thread removed the
\* thread the first turn had stored (no store operation has failed)
TurnAfterDeleteThread ==
    /\ pc = "orchestrator" /\ turn = 2 /\ faults = 0
    /\ cfg.checkpointer /\ ~stored.exists
    /\ state = create_initial_state(<<HumanMessage(UserText(2))>>)

\* C14 (as stated): with no checkpoint store configured, thread_exists,
\* get_thread_state and delete_thread never raise: thread_exists answers
\* false, the two others return without effect, and a turn still completes.
ThreadCallsNeverRaise ==
    ~cfg.checkpointer
      => /\ \A list_ok \in BOOLEAN : ~thread_exists(list_ok)
         /\ op.outcome \in {"none", "returned"}
         /\ stored = NoThread
         /\ pc \notin {"error", "route_error"}

\* C14 (amended): with no checkpoint store configured, thread_exists answers
\* false for every thread and never raises, get_thread_state and
\* delete_thread raise the "checkpointer not initialized" ValueError and
\* change nothing, no thread is ever stored, and every turn runs to its
\* answer.
ThreadCallsWithoutStore ==
    ~cfg.checkpointer
      => /\ \A list_ok \in BOOLEAN : ~thread_exists(list_ok)
         /\ op.name \in {"get_thread_state", "delete_thread"}
               => op.outcome = "ValueError"
         /\ stored = NoThread
         /\ pc \notin {"error", "route_error"}
         /\ (pc = "idle" /\ turn >= 1) => response.status = 200

\* without a checkpoint store, delete_thread raised after a turn that was
\* answered
DeleteThreadRaisedWithoutStore ==
    /\ ~cfg.checkpointer
    /\ op = [name |-> "delete_thread", outcome |-> "ValueError"]
    /\ turn >= 1
    /\ response.status = 200

\* C18: the Research tool loop never performs more tool-decision steps than
\* the configured research max_iterations.
ToolLoopWithinMaxIterations ==
    (trace # <<>> /\ Last(trace) = "research" /\ loop.ok)
      => ToolDecisionSteps(loop.new) <= cfg.max_iterations

\* C15: two turns racing on the same session are serialized: never are both
\* between reading the session's thread and their response, and when both
\* have finished the stored messages hold the User message of each.
RacingTurnsSerialized ==
    \A i, j \in RequestIds :
        (i # j /\ requests[i].session = requests[j].session
              /\ requests[i].pc # "none")
          => /\ ~(InFlight(i) /\ InFlight(j))
             /\ (requests[i].pc = "done" /\ requests[j].pc = "done")
                   => \A k \in {i, j} :
                        \E n \in 1..Len(threads[requests[i].session].values.messages.tail) :
                           threads[requests[i].session].values.messages.tail[n]
                             = HumanMessage(UserText(k))

LastAgentNamesAppender ==
    (/\ trace # <<>>
     /\ Last(trace) \in {"clarification", "research", "synthesis"}
     /\ returned.messages.len = prev.messages.len + 1
     /\ Last(returned.messages.tail).type = "ai")
      => returned.last_agent = Last(trace)

\* C22: iteration counts the agent-node executions of the run: it is never
\* negative, and every agent node that executes returns it grown by exactly
\* one, so that a finished turn has grown it by the number of nodes it ran
\* (2 on the clarification path, 3 on the research path).
IterationCountsNodes ==
    /\ state.iteration >= 0
    /\ trace # <<>> => returned.iteration = prev.iteration + 1
    /\ (pc = "END" /\ ~resumed) => state.iteration = Len(trace)

\* C23: after a successful Research step, tool_history holds each tool name
\* the loop invoked exactly once, in the order of first invocation; a loop
\* that invokes only pdf_retrieval and web_search, pdf_retrieval first, gives
\* exactly [pdf_retrieval, web_search].
ToolHistoryDeduplicated ==
    (trace # <<>> /\ Last(trace) = "research" /\ loop.ok)
      => LET history == returned.context.tool_history
             calls == ToolCalls(loop.new)
             First(name) == CHOOSE k \in 1..Len(calls) :
                               /\ calls[k] = name
                               /\ \A l \in 1..(k - 1) : calls[l] # name
         IN /\ \A i, j \in 1..Len(history) : i # j => history[i] # history[j]
            /\ {history[i] : i \in 1..Len(history)} = {calls[k] : k \in 1..Len(calls)}
            /\ \A i, j \in 1..Len(history) :
                  i < j => First(history[i]) < First(history[j])
            /\ (/\ {calls[k] : k \in 1..Len(calls)} = {PdfTool, WebTool}
                /\ calls[1] = PdfTool)
                  => history = <<PdfTool, WebTool>>

\* the loop invoked pdf_retrieval twice and then web_search, and tool_history
\* is [pdf_retrieval, web_search]
ToolUsedTwiceRecordedOnce ==
    /\ trace # <<>> /\ Last(trace) = "research" /\ loop.ok
    /\ ToolCalls(loop.new) = <<PdfTool, PdfTool, WebTool>>
    /\ returned.context.tool_history = <<PdfTool, WebTool>>

\* C24: each tool invocation of the Research loop gives one observation: a
\* successful Research step with n tool invocations returns n observations,
\* and a turn that used both tools with 3 or more invocations in total and
\* whose Synthesis call succeeded ends with confidence_score = 0.95.
ObservationPerInvocation ==
    /\ (trace # <<>> /\ Last(trace) = "research" /\ loop.ok)
          => Len(returned.context.observations) = Len(ToolCalls(loop.new))
    /\ (/\ pc = "END" /\ trace = ResearchPath /\ loop.ok
        /\ "synthesis" \notin raised
        /\ Len(ToolCalls(loop.new)) >= 3
        /\ \A name \in {PdfTool, WebTool} :
              \E k \in 1..Len(ToolCalls(loop.new)) : ToolCalls(loop.new)[k] = name)
          => state.confidence_score = Conf3

\* C25: when the Research step raises, the State it returns has a single
\* synthetic observation describing the failure, the generic failure notice
\* as final_output, next_agent = synthesis, iteration grown by one, and
\* messages exactly as on entry.
ResearchFailurePolicy ==
    (trace # <<>> /\ Last(trace) = "research" /\ ~loop.ok)
      => /\ returned.context.observations = <<ResearchFailedObservation>>
         /\ returned.context.final_output = ResearchFailedOutput
         /\ returned.next_agent = "synthesis"
         /\ returned.iteration = prev.iteration + 1
         /\ returned.messages = prev.messages

\* the Research step of a resumed turn raised, on a State that held the
\* observations of an earlier research
ResearchFailedOnResumedTurn ==
    /\ trace # <<>> /\ Last(trace) = "research" /\ ~loop.ok
    /\ resumed
    /\ Len(prev.context.observations) >= 2
    /\ returned.context.observations = <<ResearchFailedObservation>>

OrchestratorFrame ==
    (trace = <<"orchestrator">>)
      => /\ returned.messages = prev.messages
         /\ returned.last_agent = prev.last_agent
         /\ returned.context = prev.context
         /\ returned.final_answer = prev.final_answer
         /\ returned.confidence_score = prev.confidence_score
         /\ orch_layer \in {1, 2} => returned.missing_context = prev.missing_context
         /\ [returned EXCEPT !.next_agent = prev.next_agent,
                             !.clarification_needed = prev.clarification_needed,
                             !.clarification_count = prev.clarification_count,
                             !.iteration = prev.iteration,
                             !.missing_context = prev.missing_context] = prev

\* the Orchestrator's Completion call raised on a resumed State that carried
\* the answer, the score and the observations of an earlier research turn
OrchestratorFailedOnResearchedThread ==
    /\ trace = <<"orchestrator">> /\ orch_layer = 3
    /\ "orchestrator" \in raised
    /\ resumed
    /\ prev.last_agent = "synthesis"
    /\ prev.confidence_score = Conf2
    /\ Len(prev.context.observations) = 2
    /\ returned.context = prev.context

\* C28 (as stated): a retrieved document is withheld from the model if and
\* only if its score is below the configured minimum similarity score.
WithheldIffBelowMinimum ==
    tool_output.called
      => \A i \in 1..Len(documents) :
            (\A k \in 1..Len(tool_output.docs) : tool_output.docs[k].source # i)
              <=> documents[i].score < min_similarity_score

\* C28 (amended): a retrieved document is withheld if and only if its score
\* is not above the configured minimum similarity score (a score equal to it
\* is withheld); the documents shown keep their rank order and are numbered
\* from 1; and the tool returns the no-relevant-documents notice exactly when
\* no document is left, none having been retrieved included.
WithheldIffNotAboveMinimum ==
    tool_output.called
      => /\ \A i \in 1..Len(documents) :
               (\A k \in 1..Len(tool_output.docs) : tool_output.docs[k].source # i)
                 <=> documents[i].score <= min_similarity_score
         /\ \A k \in 1..Len(tool_output.docs) :
               /\ tool_output.docs[k].number = k
               /\ tool_output.docs[k].source \in 1..Len(documents)
               /\ tool_output.docs[k].score = documents[tool_output.docs[k].source].score
         /\ \A k, l \in 1..Len(tool_output.docs) :
               k < l => tool_output.docs[k].source < tool_output.docs[l].source
         /\ tool_output.found <=> tool_output.docs # <<>>
         /\ ~tool_output.found
               <=> \A i \in 1..Len(documents) : documents[i].score <= min_similarity_score

\* of three documents retrieved the second, whose score equals the minimum,
\* is withheld and the two others are shown in their order
DocumentAtMinimumWithheld ==
    /\ tool_output.called
    /\ Len(documents) = 3
    /\ documents[2].score = min_similarity_score
    /\ Len(tool_output.docs) = 2
    /\ tool_output.docs[1].source = 1
    /\ tool_output.docs[2].source = 3

\* C29: a turn whose Research step failed ends with confidence_score = 0.0,
\* whether or not the Completion call of Synthesis succeeds.
FailedResearchScoresZero ==
    (pc = "END" /\ trace = ResearchPath /\ ~loop.ok)
      => state.confidence_score = Conf0

\* C30: in every turn that reaches Synthesis, resumed turns included, the
\* query placed in the synthesis prompt is the User message that started
\* the turn.
SynthesisQueryIsTurnQuery ==
    (trace # <<>> /\ Last(trace) = "synthesis")
      => SynthesisQuery(prev, cfg.max_history) = UserText(turn)

====
